---- MODULE Spec2Model ----
(***************************************************************************)
(* Model of native/ex_tokenizers/src/encoding.rs: the NIF layer that       *)
(* exposes a tokenizers::Encoding as a reference-counted resource, its     *)
(* accessors, the raw byte export of its u32 arrays, and the two           *)
(* transforms truncate and pad.                                            *)
(*                                                                         *)
(* An Encoding is modelled by the six arrays the accessors of this file    *)
(* can observe.  The fields of tokenizers::Encoding that no NIF of this    *)
(* file reads (words, overflowing, sequence_ranges) are left out.          *)
(* The bodies of Encoding::truncate, Encoding::pad, Encoding::len and      *)
(* Encoding::with_capacity belong to the tokenizers crate this file calls; *)
(* they are modelled after that crate's tokenizer/encoding.rs.             *)
(* Array positions are 1-based here and 0-based in the source.             *)
(***************************************************************************)
EXTENDS Integers, Sequences, FiniteSets, TLC

\* ---------------------------------------------------------------- bounds
MaxLen == 2        \* longest Encoding handed over by the upstream tokenizer
MaxArg == 3        \* largest max_len / target_length tried
MaxStride == 1     \* largest stride tried
MaxHandles == 2    \* resources alive at once (source included)

\* ------------------------------------------------------------- constants
BytesPerU32 == 4
\* the largest u32 used as an input (0x7FFFFFFF): TLC's integers end there,
\* and no operation of this file does arithmetic on the elements of an array
LargeU32 == (2 ^ 30 - 1) * 2 + 1
ByteModulus == 2 ^ 8

Directions == {"left", "right", "up", "Left"}
PadArgs ==
    { [pad_id |-> 0, pad_type_id |-> 0, pad_token |-> "[PAD]"],
      [pad_id |-> LargeU32, pad_type_id |-> 1, pad_token |-> "<pad>"] }

Fields ==
    {"tokens", "ids", "type_ids", "attention_mask", "special_tokens_mask", "offsets"}

Min(a, b) == IF a < b THEN a ELSE b
Max(a, b) == IF a > b THEN a ELSE b

\* n copies of x
Repeat(x, n) == [i \in 1..n |-> x]

\* --------------------------------------------------------------- Encoding
\* The Encoding the upstream tokenizer hands over for an input of n tokens:
\* position 1 is a special token, every id has four distinct bytes, the
\* second half of a pair has type id 1.  All six arrays have length n.
UpstreamId(i) == i + ByteModulus * (i + 1) + (ByteModulus ^ 2) * (i + 2)
                   + (ByteModulus ^ 3) * (i + 3)

UpstreamTokens == <<"[CLS]", "hello", "world", "##s", "of", "token", "##izer", "!">>

UpstreamEncoding(n, pair) ==
    [ tokens              |-> [i \in 1..n |-> UpstreamTokens[((i - 1) % Len(UpstreamTokens)) + 1]],
      ids                 |-> [i \in 1..n |-> UpstreamId(i)],
      type_ids            |-> [i \in 1..n |-> IF pair /\ 2 * i > n + 1 THEN 1 ELSE 0],
      attention_mask      |-> [i \in 1..n |-> 1],
      special_tokens_mask |-> [i \in 1..n |-> IF i = 1 THEN 1 ELSE 0],
      offsets             |-> [i \in 1..n |-> IF i = 1 THEN <<0, 0>>
                                              ELSE <<2 * (i - 2), 2 * (i - 1)>>] ]

\* Encoding::with_capacity(0)
EmptyEncoding ==
    [ tokens |-> <<>>, ids |-> <<>>, type_ids |-> <<>>, attention_mask |-> <<>>,
      special_tokens_mask |-> <<>>, offsets |-> <<>> ]

\* Encoding::len
EncodingLen(e) == Len(e.ids)

\* the half-open 0-based range start..stop of every array
EncodingSlice(e, start, stop) ==
    [ tokens              |-> SubSeq(e.tokens, start + 1, stop),
      ids                 |-> SubSeq(e.ids, start + 1, stop),
      type_ids            |-> SubSeq(e.type_ids, start + 1, stop),
      attention_mask      |-> SubSeq(e.attention_mask, start + 1, stop),
      special_tokens_mask |-> SubSeq(e.special_tokens_mask, start + 1, stop),
      offsets             |-> SubSeq(e.offsets, start + 1, stop) ]

\* every array of a followed by the same array of b
EncodingConcat(a, b) ==
    [ tokens              |-> a.tokens \o b.tokens,
      ids                 |-> a.ids \o b.ids,
      type_ids            |-> a.type_ids \o b.type_ids,
      attention_mask      |-> a.attention_mask \o b.attention_mask,
      special_tokens_mask |-> a.special_tokens_mask \o b.special_tokens_mask,
      offsets             |-> a.offsets \o b.offsets ]

\* ------------------------------------------- tokenizers::Encoding::truncate
\* parts_ranges for TruncationDirection::Right:
\* (0..encoding_len).step_by(offset).filter_map(..) with the `end` flag
RECURSIVE RightRanges(_, _, _, _, _)
RightRanges(start, encoding_len, max_len, offset, end) ==
    IF start >= encoding_len THEN <<>>
    ELSE IF ~end
         THEN LET stop == Min(start + max_len, encoding_len)
              IN  <<[start |-> start, stop |-> stop]>>
                    \o RightRanges(start + offset, encoding_len, max_len, offset,
                                   stop = encoding_len)
         ELSE RightRanges(start + offset, encoding_len, max_len, offset, end)

\* parts_ranges for TruncationDirection::Left:
\* (0..encoding_len).rev().step_by(offset).filter_map(..); idx is the
\* iterator's item, -1 once the iterator is exhausted
RECURSIVE LeftRanges(_, _, _, _)
LeftRanges(idx, max_len, offset, end) ==
    IF idx < 0 THEN <<>>
    ELSE LET stop  == idx + 1
             start == IF stop < max_len THEN 0 ELSE stop - max_len
         IN  IF start < stop /\ ~end
             THEN <<[start |-> start, stop |-> stop]>>
                    \o LeftRanges(idx - offset, max_len, offset, start = 0)
             ELSE LeftRanges(idx - offset, max_len, offset, end)

PartsRanges(encoding_len, max_len, stride, direction) ==
    LET offset == max_len - stride
    IN  IF direction = "Right"
        THEN RightRanges(0, encoding_len, max_len, offset, FALSE)
        ELSE LeftRanges(encoding_len - 1, max_len, offset, FALSE)

\* Encoding::truncate(&mut self, max_len, stride, direction): the value of
\* *self afterwards, or a panic when the assertion stride < max_len fails.
EncodingTruncate(e, max_len, stride, direction) ==
    LET encoding_len == Len(e.ids)
    IN  IF max_len >= encoding_len THEN [panicked |-> FALSE, value |-> e]
        ELSE IF max_len = 0 THEN [panicked |-> FALSE, value |-> EmptyEncoding]
        ELSE IF ~(stride < max_len) THEN [panicked |-> TRUE, value |-> e]
        ELSE LET first == PartsRanges(encoding_len, max_len, stride, direction)[1]
             IN  [panicked |-> FALSE, value |-> EncodingSlice(e, first.start, first.stop)]

\* ------------------------------------------------ tokenizers::Encoding::pad
\* Encoding::pad with the offsets array left unpadded
EncodingPad_missingOffsets(e, target_length, pad_id, pad_type_id, pad_token, direction) ==
    IF Len(e.ids) >= target_length THEN e
    ELSE LET pad_length == target_length - Len(e.ids)
             padding ==
                 [ tokens              |-> Repeat(pad_token, pad_length),
                   ids                 |-> Repeat(pad_id, pad_length),
                   type_ids            |-> Repeat(pad_type_id, pad_length),
                   attention_mask      |-> Repeat(0, pad_length),
                   special_tokens_mask |-> Repeat(1, pad_length),
                   offsets             |-> <<>> ]
         IN  IF direction = "Left"
             THEN EncodingConcat(padding, e)
             ELSE EncodingConcat(e, padding)

\* Encoding::pad(&mut self, target_length, pad_id, pad_type_id, pad_token,
\* direction): the value of *self afterwards.
EncodingPad(e, target_length, pad_id, pad_type_id, pad_token, direction) ==
    IF Len(e.ids) >= target_length THEN e
    ELSE LET pad_length == target_length - Len(e.ids)
             padding ==
                 [ tokens              |-> Repeat(pad_token, pad_length),
                   ids                 |-> Repeat(pad_id, pad_length),
                   type_ids            |-> Repeat(pad_type_id, pad_length),
                   attention_mask      |-> Repeat(0, pad_length),
                   special_tokens_mask |-> Repeat(1, pad_length),
                   offsets             |-> Repeat(<<0, 0>>, pad_length) ]
         IN  IF direction = "Left"
             THEN EncodingConcat(padding, e)
             ELSE EncodingConcat(e, padding)

\* ------------------------------------------------------------ byte export
\* the four bytes of one u32 in memory, in the byte order of the platform
U32Bytes(v, order) ==
    LET b0 == v % ByteModulus
        b1 == (v \div ByteModulus) % ByteModulus
        b2 == (v \div (ByteModulus ^ 2)) % ByteModulus
        b3 == (v \div (ByteModulus ^ 3)) % ByteModulus
    IN  IF order = "little" THEN <<b0, b1, b2, b3>> ELSE <<b3, b2, b1, b0>>

\* the memory of a [u32] slice, byte by byte
RECURSIVE SliceMemory(_, _)
SliceMemory(slice, order) ==
    IF slice = <<>> THEN <<>>
    ELSE U32Bytes(Head(slice), order) \o SliceMemory(Tail(slice), order)

\* slice_u32_to_u8 with the length left in elements instead of bytes
slice_u32_to_u8_lenInElements(slice, order) ==
    SubSeq(SliceMemory(slice, order), 1, Len(slice))

\* slice_u32_to_u8: the first slice.len() * 4 bytes at slice.as_ptr()
slice_u32_to_u8(slice, order) ==
    SubSeq(SliceMemory(slice, order), 1, Len(slice) * BytesPerU32)

\* ------------------------------------------------------------------ state
VARIABLES
    enc,      \* the live resources: enc[h] is the Encoding behind handle h
    order,    \* the byte order of the platform the NIF library is built for
    last      \* the latest NIF call: what was called and what came back

vars == <<enc, order, last>>

Handles == 1..Len(enc)

\* ExTokenizersEncoding::new: a new resource, under a handle not in use
ExTokenizersEncodingNew(data) == Append(enc, data)

Init ==
    /\ \E n \in 0..MaxLen, pair \in BOOLEAN : enc = <<UpstreamEncoding(n, pair)>>
    /\ order \in {"little", "big"}
    /\ last = [op |-> "none", outcome |-> "none"]

\* -------------------------------------------------------------- accessors
\* what each read-only NIF returns for handle h
get_tokens_of(h) == enc[h].tokens
get_ids_of(h) == enc[h].ids
get_u32_ids_of(h) == slice_u32_to_u8(enc[h].ids, order)
get_attention_mask_of(h) == enc[h].attention_mask
get_u32_attention_mask_of(h) == slice_u32_to_u8(enc[h].attention_mask, order)
get_type_ids_of(h) == enc[h].type_ids
get_u32_type_ids_of(h) == slice_u32_to_u8(enc[h].type_ids, order)
get_special_tokens_mask_of(h) == enc[h].special_tokens_mask
get_u32_special_tokens_mask_of(h) == slice_u32_to_u8(enc[h].special_tokens_mask, order)
get_offsets_of(h) == enc[h].offsets
n_tokens_of(h) == EncodingLen(enc[h])

\* a read-only NIF call: Ok(value), nothing else changes
Returns(op, h, value) ==
    /\ last' = [op |-> op, src |-> h, outcome |-> "ok", ret |-> value]
    /\ UNCHANGED <<enc, order>>

get_tokens(h) == Returns("get_tokens", h, get_tokens_of(h))
get_ids(h) == Returns("get_ids", h, get_ids_of(h))
get_u32_ids(h) == Returns("get_u32_ids", h, get_u32_ids_of(h))
get_attention_mask(h) == Returns("get_attention_mask", h, get_attention_mask_of(h))
get_u32_attention_mask(h) ==
    Returns("get_u32_attention_mask", h, get_u32_attention_mask_of(h))
get_type_ids(h) == Returns("get_type_ids", h, get_type_ids_of(h))
get_u32_type_ids(h) == Returns("get_u32_type_ids", h, get_u32_type_ids_of(h))
get_special_tokens_mask(h) ==
    Returns("get_special_tokens_mask", h, get_special_tokens_mask_of(h))
get_u32_special_tokens_mask(h) ==
    Returns("get_u32_special_tokens_mask", h, get_u32_special_tokens_mask_of(h))
get_offsets(h) == Returns("get_offsets", h, get_offsets_of(h))
n_tokens(h) == Returns("n_tokens", h, n_tokens_of(h))

\* ------------------------------------------------------------- transforms
\* the match on the direction string; "panic" is the `_ => panic!(..)` arm
\* the match with its two arms exchanged
TruncationDirectionOf_swapped(direction) ==
    CASE direction = "left"  -> "Right"
      [] direction = "right" -> "Left"
      [] OTHER               -> "panic"

TruncationDirectionOf(direction) ==
    CASE direction = "left"  -> "Left"
      [] direction = "right" -> "Right"
      [] OTHER               -> "panic"

PaddingDirectionOf_swapped(direction) ==
    CASE direction = "left"  -> "Right"
      [] direction = "right" -> "Left"
      [] OTHER               -> "panic"

PaddingDirectionOf(direction) ==
    CASE direction = "left"  -> "Left"
      [] direction = "right" -> "Right"
      [] OTHER               -> "panic"

\* the NIF unwinds: no term is returned, no resource is created
Panics(call) ==
    /\ last' = [call EXCEPT !.outcome = "panic"]
    /\ UNCHANGED <<enc, order>>

\* the transform applied to the resource itself, whose handle is returned
ReturnsNew_inPlace(call, new_encoding) ==
    /\ enc' = [enc EXCEPT ![call.src] = new_encoding]
    /\ last' = [call EXCEPT !.outcome = "ok", !.ret = call.src]
    /\ UNCHANGED order

\* the transformed clone dropped, the handle passed in returned
ReturnsNew_original(call, new_encoding) ==
    /\ last' = [call EXCEPT !.outcome = "ok", !.ret = call.src]
    /\ UNCHANGED <<enc, order>>

\* Ok(ExTokenizersEncoding::new(new_encoding))
ReturnsNew(call, new_encoding) ==
    /\ enc' = ExTokenizersEncodingNew(new_encoding)
    /\ last' = [call EXCEPT !.outcome = "ok", !.ret = Len(enc) + 1]
    /\ UNCHANGED order

truncate(h, max_len, stride, direction) ==
    LET call == [op |-> "truncate", src |-> h, max_len |-> max_len, stride |-> stride,
                 direction |-> direction, outcome |-> "none", ret |-> 0]
        dir  == TruncationDirectionOf(direction)
    IN  IF dir = "panic" THEN Panics(call)
        ELSE LET new_encoding == enc[h]
                 truncated    == EncodingTruncate(new_encoding, max_len, stride, dir)
             IN  IF truncated.panicked THEN Panics(call)
                 ELSE ReturnsNew(call, truncated.value)

\* pad with pad_id and pad_type_id exchanged in the call of Encoding::pad
pad_idsExchanged(h, target_length, pad_id, pad_type_id, pad_token, direction) ==
    LET call == [op |-> "pad", src |-> h, target_length |-> target_length,
                 pad_id |-> pad_id, pad_type_id |-> pad_type_id, pad_token |-> pad_token,
                 direction |-> direction, outcome |-> "none", ret |-> 0]
        dir  == PaddingDirectionOf(direction)
    IN  IF dir = "panic" THEN Panics(call)
        ELSE LET new_encoding == enc[h]
             IN  ReturnsNew(call, EncodingPad(new_encoding, target_length, pad_type_id,
                                              pad_id, pad_token, dir))

pad(h, target_length, pad_id, pad_type_id, pad_token, direction) ==
    LET call == [op |-> "pad", src |-> h, target_length |-> target_length,
                 pad_id |-> pad_id, pad_type_id |-> pad_type_id, pad_token |-> pad_token,
                 direction |-> direction, outcome |-> "none", ret |-> 0]
        dir  == PaddingDirectionOf(direction)
    IN  IF dir = "panic" THEN Panics(call)
        ELSE LET new_encoding == enc[h]
             IN  ReturnsNew(call, EncodingPad(new_encoding, target_length, pad_id,
                                              pad_type_id, pad_token, dir))

\* ------------------------------------------------------------------- Next
Truncate ==
    /\ Len(enc) < MaxHandles
    /\ \E h \in Handles, max_len \in 0..MaxArg, stride \in 0..MaxStride, d \in Directions :
          truncate(h, max_len, stride, d)

Pad ==
    /\ Len(enc) < MaxHandles
    /\ \E h \in Handles, target_length \in 0..MaxArg, a \in PadArgs, d \in Directions :
          pad(h, target_length, a.pad_id, a.pad_type_id, a.pad_token, d)

GetTokens == \E h \in Handles : get_tokens(h)
GetIds == \E h \in Handles : get_ids(h)
GetU32Ids == \E h \in Handles : get_u32_ids(h)
GetAttentionMask == \E h \in Handles : get_attention_mask(h)
GetU32AttentionMask == \E h \in Handles : get_u32_attention_mask(h)
GetTypeIds == \E h \in Handles : get_type_ids(h)
GetU32TypeIds == \E h \in Handles : get_u32_type_ids(h)
GetSpecialTokensMask == \E h \in Handles : get_special_tokens_mask(h)
GetU32SpecialTokensMask == \E h \in Handles : get_u32_special_tokens_mask(h)
GetOffsets == \E h \in Handles : get_offsets(h)
NTokens == \E h \in Handles : n_tokens(h)

Next ==
    \/ Truncate
    \/ Pad
    \/ GetTokens
    \/ GetIds
    \/ GetU32Ids
    \/ GetAttentionMask
    \/ GetU32AttentionMask
    \/ GetTypeIds
    \/ GetU32TypeIds
    \/ GetSpecialTokensMask
    \/ GetU32SpecialTokensMask
    \/ GetOffsets
    \/ NTokens

Spec == Init /\ [][Next]_vars

\* ------------------------------------------------- pad, then truncate back
\* One caller pads the upstream Encoding and then truncates the padded
\* Encoding in the direction it padded in.
PadFirst ==
    /\ Len(enc) = 1
    /\ \E target_length \in 0..MaxArg, a \in PadArgs, d \in {"left", "right"} :
          pad(1, target_length, a.pad_id, a.pad_type_id, a.pad_token, d)

TruncateSecond ==
    /\ Len(enc) = 2
    /\ last.op = "pad" /\ last.outcome = "ok"
    /\ \E max_len \in 0..MaxArg, stride \in 0..MaxStride :
          truncate(last.ret, max_len, stride, last.direction)

NextRoundTrip ==
    \/ PadFirst
    \/ TruncateSecond

SpecRoundTrip == Init /\ [][NextRoundTrip]_vars

\* ================================================================= claims
SixArraysEqual(a, b) == \A f \in Fields : a[f] = b[f]

IsTransform == last.op \in {"truncate", "pad"}
ValidDirection == last.direction \in {"left", "right"}
\* the source of the latest call and, when it returned a handle, its result
Source == enc[last.src]
Result == enc[last.ret]

C2_InvalidDirectionIsAnError ==
    (IsTransform /\ ~ValidDirection) => last.outcome = "InvalidArgument"

PadEntry ==
    [ tokens |-> last.pad_token, ids |-> last.pad_id, type_ids |-> last.pad_type_id,
      attention_mask |-> 0, special_tokens_mask |-> 1, offsets |-> <<0, 0>> ]

\* C4: with target_length > N, pad adds exactly target_length - N pad entries,
\* after the N original entries for "right" and before them for "left"; the
\* original entries keep their values and order in all six arrays.
C4_PadAddsPadEntries ==
    (/\ last.op = "pad" /\ ValidDirection
     /\ last.target_length > EncodingLen(Source))
    => /\ last.outcome = "ok"
       /\ LET n == EncodingLen(Source)
              k == last.target_length - n
          IN  \A f \in Fields :
                Result[f] = IF last.direction = "right"
                            THEN Source[f] \o Repeat(PadEntry[f], k)
                            ELSE Repeat(PadEntry[f], k) \o Source[f]

\* a left pad of a non-empty Encoding with a pad id and type id other than 0
C4_Witness ==
    /\ last.op = "pad" /\ last.outcome = "ok" /\ last.direction = "left"
    /\ EncodingLen(Source) >= 1
    /\ last.target_length > EncodingLen(Source)
    /\ last.pad_id # 0 /\ last.pad_type_id # 0

\* C5: pad with a valid direction returns an Encoding of max(N, target_length)
\* tokens, equal to the source in all six arrays when target_length <= N.
C5_PadLength ==
    (last.op = "pad" /\ ValidDirection)
    => /\ last.outcome = "ok"
       /\ EncodingLen(Result) = Max(EncodingLen(Source), last.target_length)
       /\ last.target_length <= EncodingLen(Source) => SixArraysEqual(Result, Source)

\* a pad to a target shorter than the Encoding
C5_Witness ==
    /\ last.op = "pad" /\ last.outcome = "ok"
    /\ last.target_length < EncodingLen(Source)
    /\ last.ret # last.src

\* C6: truncate with a valid direction and any stride returns an Encoding of
\* at most max_len tokens, equal to the source when max_len >= N.
C6_TruncateLength ==
    (last.op = "truncate" /\ ValidDirection)
    => /\ last.outcome = "ok"
       /\ EncodingLen(Result) <= last.max_len
       /\ last.max_len >= EncodingLen(Source) => SixArraysEqual(Result, Source)

RECURSIVE U32FromBytes(_, _)
U32FromBytes(bytes, byteorder) ==
    IF Len(bytes) < BytesPerU32 THEN <<>>
    ELSE LET v == IF byteorder = "little"
                  THEN bytes[1] + ByteModulus * bytes[2] + (ByteModulus ^ 2) * bytes[3]
                         + (ByteModulus ^ 3) * bytes[4]
                  ELSE bytes[4] + ByteModulus * bytes[3] + (ByteModulus ^ 2) * bytes[2]
                         + (ByteModulus ^ 3) * bytes[1]
         IN  <<v>> \o U32FromBytes(SubSeq(bytes, BytesPerU32 + 1, Len(bytes)), byteorder)

ExportRoundTrips(bytes, array) ==
    /\ Len(bytes) = 4 * Len(array)
    /\ \A i \in 1..Len(bytes) : bytes[i] \in 0..(ByteModulus - 1)
    /\ U32FromBytes(bytes, order) = array

\* C8: each byte export is 4*N bytes long and, regrouped into 4-byte values in
\* the same byte order, gives the array of the plain accessor.
C8_ByteExportRoundTrips ==
    \A h \in Handles :
        /\ ExportRoundTrips(get_u32_ids_of(h), get_ids_of(h))
        /\ ExportRoundTrips(get_u32_attention_mask_of(h), get_attention_mask_of(h))
        /\ ExportRoundTrips(get_u32_type_ids_of(h), get_type_ids_of(h))
        /\ ExportRoundTrips(get_u32_special_tokens_mask_of(h),
                            get_special_tokens_mask_of(h))

\* the ids of a padded Encoding exported: several bytes of an id are not 0
C8_Witness ==
    /\ last.op = "get_u32_ids" /\ last.src = 2
    /\ Len(last.ret) >= 8
    /\ \E i \in 1..Len(last.ret) : last.ret[i] = ByteModulus - 1
    /\ last.ret[1] # last.ret[4]

\* C9: truncate and pad with a valid direction return an Encoding whatever
\* max_len, stride and target_length are.
C9_TransformsAreTotal ==
    (IsTransform /\ ValidDirection) => last.outcome = "ok"

\* C10: an Encoding of N >= 1 tokens padded to more than N tokens and then
\* truncated to N tokens with stride 0 in the same direction is the original
\* Encoding again in all six arrays.  (Under SpecRoundTrip enc[1] is the
\* original, enc[2] the padded and enc[3] the truncated Encoding.)
C10_PadThenTruncateRoundTrips ==
    (/\ last.op = "truncate" /\ last.src = 2
     /\ last.stride = 0
     /\ EncodingLen(enc[1]) >= 1
     /\ last.max_len = EncodingLen(enc[1])
     /\ EncodingLen(enc[2]) > EncodingLen(enc[1]))
    => /\ last.outcome = "ok"
       /\ SixArraysEqual(Result, enc[1])

\* a left pad by at least two entries, undone by a left truncation
C10_Witness ==
    /\ last.op = "truncate" /\ last.outcome = "ok" /\ last.src = 2
    /\ last.direction = "left" /\ last.stride = 0
    /\ EncodingLen(enc[1]) >= 1
    /\ last.max_len = EncodingLen(enc[1])
    /\ EncodingLen(enc[2]) >= EncodingLen(enc[1]) + 2
    /\ SixArraysEqual(enc[3], enc[1])

====
